---- MODULE Spec2Model ----
(***************************************************************************)
(* Reliability-incident lifecycle of evals/reliability_eval.py:            *)
(* ReliabilityEvaluator.simulate_signup_attempts drives one evaluation     *)
(* run; _generate_failure_incident classifies a failure;                   *)
(* _simulate_retries runs the bounded retry cascade;                       *)
(* calculate_reliability_metrics reduces the two lists to a snapshot.      *)
(*                                                                         *)
(* Time is counted in minutes.  A random.random() draw is a number of      *)
(* hundredths.  An Optional value is <<>> (None) or <<v>>.                  *)
(* A state is the evaluator at the head of one of its loops: the for loop  *)
(* of simulate_signup_attempts or the while loop of _simulate_retries.     *)
(***************************************************************************)
EXTENDS Integers, Sequences, FiniteSets, TLC

VARIABLES
    signup_attempts,    \* self.signup_attempts
    failure_incidents,  \* self.failure_incidents
    i,                  \* loop index of simulate_signup_attempts
    pc,                 \* "simulate" | "retry" | "done" | "called"
    signup,             \* original_signup of the running cascade (Optional)
    incident,           \* index in failure_incidents of the cascade's incident, 0 if none
    retry_count,        \* local retry_count of _simulate_retries
    caller,             \* who called _simulate_retries: "simulate" | "direct"
    returned,           \* value returned by a direct call of _generate_failure_incident (Optional)
    raised,             \* TRUE once an exception has been raised
    results             \* the metrics snapshot (Optional)

vars == <<signup_attempts, failure_incidents, i, pc, signup, incident,
          retry_count, caller, returned, raised, results>>

----------------------------------------------------------------------------
(* Bounds *)

\* num_attempts of one run (100 in run_reliability_evaluation)
NumAttempts == 2

----------------------------------------------------------------------------
(* Program constants and enumerations *)

None == <<>>
Some(x) == <<x>>

\* class FailureType, in declaration order
FailureType ==
    << "authentication_failed", "network_timeout", "payment_declined",
       "program_full", "site_maintenance", "captcha_challenge",
       "rate_limited", "form_validation_error" >>

\* class InterventionType, in declaration order
InterventionType ==
    << "manual_login", "credential_update", "payment_method_update",
       "customer_support", "system_restart" >>

\* providers of simulate_signup_attempts
providers == << "skiclubpro", "daysmart", "campminder" >>

\* a provider string the evaluator has no table for
OpenProviders == { providers[k] : k \in 1..Len(providers) } \cup { "otherprovider" }

max_retries == 3
RetryDelayMinutes == 5
RetrySuccessPercent == 80
FailurePercent == 15
MaxDays == 30
MinutesPerDay == 24 * 60
\* random.random() of the weighted selection, in hundredths: every multiple
\* of 0.05 in [0, 1) and 0.99, which has both sides of every cumulative weight
Draws == { 5 * k : k \in 0..19 } \cup { 99 }

\* random.random() < 0.15 (will_fail): the draws on both sides of the threshold
WillFailDraws == { FailurePercent - 1, FailurePercent }

\* random.random() < 0.8 (retry_success): the draws on both sides of the threshold
RetryDraws == { RetrySuccessPercent - 1, RetrySuccessPercent }

\* random.randint(0, 30): the two ends of the range
DayDraws == { 0, MaxDays }

\* random.randint(1000, 9999) of the incident id: the two ends of the range
IdDraws == { 1000, 9999 }

\* datetime.now(), constant over a run
Now == MaxDays * MinutesPerDay

\* the weighted tables of _generate_failure_incident, weights in hundredths
FailureTable(provider) ==
    IF provider = "skiclubpro" THEN
        << <<"authentication_failed", 30>>, <<"rate_limited", 20>>,
           <<"network_timeout", 20>>, <<"payment_declined", 15>>,
           <<"site_maintenance", 10>>, <<"captcha_challenge", 5>> >>
    ELSE IF provider = "daysmart" THEN
        << <<"form_validation_error", 25>>, <<"program_full", 25>>,
           <<"network_timeout", 20>>, <<"authentication_failed", 15>>,
           <<"payment_declined", 15>> >>
    ELSE
        << <<"program_full", 40>>, <<"payment_declined", 20>>,
           <<"network_timeout", 20>>, <<"authentication_failed", 20>> >>

RECURSIVE SelectFrom_Strict(_, _, _, _)
SelectFrom_Strict(table, k, cumulative, rand) ==
    IF k > Len(table) THEN "network_timeout"
    ELSE IF rand < cumulative + table[k][2] THEN table[k][1]
    ELSE SelectFrom_Strict(table, k + 1, cumulative + table[k][2], rand)

\* the for loop over failure_types: cumulative += weight; if rand <= cumulative
RECURSIVE SelectFrom(_, _, _, _)
SelectFrom(table, k, cumulative, rand) ==
    IF k > Len(table) THEN "network_timeout"
    ELSE IF rand <= cumulative + table[k][2] THEN table[k][1]
    ELSE SelectFrom(table, k + 1, cumulative + table[k][2], rand)

SelectFailureType(provider, rand) == SelectFrom(FailureTable(provider), 1, 0, rand)

ManualInterventionTypes_NoAuth == { "captcha_challenge", "site_maintenance" }

\* manual_intervention_required = failure_type in [...]
ManualInterventionTypes ==
    { "captcha_challenge", "site_maintenance", "authentication_failed" }

InterventionFor_AlwaysSupport(failure_type) ==
    IF failure_type \in ManualInterventionTypes THEN Some("customer_support") ELSE None

\* intervention_type of _generate_failure_incident
InterventionFor(failure_type) ==
    IF failure_type \in ManualInterventionTypes THEN
        IF failure_type = "captcha_challenge" THEN Some("manual_login")
        ELSE IF failure_type = "authentication_failed" THEN Some("credential_update")
        ELSE IF failure_type = "site_maintenance" THEN Some("customer_support")
        ELSE None
    ELSE None

_get_error_message(failure_type) ==
    CASE failure_type = "authentication_failed" -> "Invalid username or password"
      [] failure_type = "network_timeout" -> "Request timed out after 30 seconds"
      [] failure_type = "payment_declined" -> "Payment was declined by your bank"
      [] failure_type = "program_full" -> "This program is currently full"
      [] failure_type = "site_maintenance" -> "Site is under maintenance"
      [] failure_type = "captcha_challenge" -> "CAPTCHA verification required"
      [] failure_type = "rate_limited" -> "Too many requests, please try again later"
      [] failure_type = "form_validation_error" -> "Please check all required fields"
      [] OTHER -> "Unknown error occurred"

\* _generate_failure_incident: the FailureIncident it returns
_generate_failure_incident(signup_id, provider, timestamp, rand, idrand) ==
    LET failure_type == SelectFailureType(provider, rand) IN
    [ incident_id |-> << "incident_", Now, idrand >>,
      signup_id |-> signup_id,
      provider |-> provider,
      failure_type |-> failure_type,
      timestamp |-> timestamp,
      resolved |-> FALSE,
      resolution_time |-> None,
      retry_count |-> 0,
      manual_intervention |-> failure_type \in ManualInterventionTypes,
      intervention_type |-> InterventionFor(failure_type),
      error_message |-> _get_error_message(failure_type) ]

SignupAttempt_NoIncident(n, timestamp, success, failure_incident) ==
    [ signup_id |-> << "signup_", n >>,
      user_id |-> << "user_", (n % 20) + 1 >>,
      provider |-> providers[(n % Len(providers)) + 1],
      program_id |-> << "program_", (n % 10) + 1 >>,
      timestamp |-> timestamp,
      success |-> success,
      failure_incident |-> None,
      retry_of |-> None ]

\* SignupAttempt(...) of simulate_signup_attempts, for loop index n
SignupAttempt(n, timestamp, success, failure_incident) ==
    [ signup_id |-> << "signup_", n >>,
      user_id |-> << "user_", (n % 20) + 1 >>,
      provider |-> providers[(n % Len(providers)) + 1],
      program_id |-> << "program_", (n % 10) + 1 >>,
      timestamp |-> timestamp,
      success |-> success,
      failure_incident |-> failure_incident,
      retry_of |-> None ]

----------------------------------------------------------------------------
(* _simulate_retries *)

NoRetryTypes_OnlyProgramFull == { "program_full" }

\* if incident.failure_type in [PROGRAM_FULL, PAYMENT_DECLINED]: return
NoRetryTypes == { "program_full", "payment_declined" }

RetryTimestamp_NoScale(inc, rc) == inc.timestamp + RetryDelayMinutes

\* retry_timestamp = incident.timestamp + timedelta(minutes=retry_count * 5)
RetryTimestamp(inc, rc) == inc.timestamp + rc * RetryDelayMinutes

RetryId_NoRound(signup_id, rc) == signup_id \o << "_retry_" >>

\* retry_id = f"{original_signup.signup_id}_retry_{retry_count}"
RetryId(signup_id, rc) == signup_id \o << "_retry_", rc >>

RetryAttempt_OriginalTime(original, inc, rc, success) ==
    [ signup_id |-> RetryId(original.signup_id, rc),
      user_id |-> original.user_id,
      provider |-> original.provider,
      program_id |-> original.program_id,
      timestamp |-> original.timestamp,
      success |-> success,
      failure_incident |-> None,
      retry_of |-> Some(original.signup_id) ]

RetryAttempt_KeepsIncident(original, inc, rc, success) ==
    [ signup_id |-> RetryId(original.signup_id, rc),
      user_id |-> original.user_id,
      provider |-> original.provider,
      program_id |-> original.program_id,
      timestamp |-> RetryTimestamp(inc, rc),
      success |-> success,
      failure_incident |-> original.failure_incident,
      retry_of |-> Some(original.signup_id) ]

\* the retry SignupAttempt of round rc
RetryAttempt(original, inc, rc, success) ==
    [ signup_id |-> RetryId(original.signup_id, rc),
      user_id |-> original.user_id,
      provider |-> original.provider,
      program_id |-> original.program_id,
      timestamp |-> RetryTimestamp(inc, rc),
      success |-> success,
      failure_incident |-> None,
      retry_of |-> Some(original.signup_id) ]

AppendAttempt_Front(list, a) == << a >> \o list

\* self.signup_attempts.append(...)
AppendAttempt(list, a) == Append(list, a)

ResolveIncident_MovesTimestamp(inc, rc) ==
    [ inc EXCEPT !.resolved = TRUE,
                 !.resolution_time = Some(RetryTimestamp(inc, rc)),
                 !.retry_count = rc,
                 !.timestamp = RetryTimestamp(inc, rc) ]

ResolveIncident_NoTime(inc, rc) ==
    [ inc EXCEPT !.resolved = TRUE,
                 !.retry_count = rc ]

ResolveIncident_CountBefore(inc, rc) ==
    [ inc EXCEPT !.resolved = TRUE,
                 !.resolution_time = Some(RetryTimestamp(inc, rc)),
                 !.retry_count = rc - 1 ]

\* the success branch: resolved, resolution_time, retry_count
ResolveIncident(inc, rc) ==
    [ inc EXCEPT !.resolved = TRUE,
                 !.resolution_time = Some(RetryTimestamp(inc, rc)),
                 !.retry_count = rc ]

AfterRetries_NoKind(inc) ==
    IF ~inc.resolved THEN [ inc EXCEPT !.manual_intervention = TRUE ] ELSE inc

AfterRetries_Overwrite(inc) ==
    IF ~inc.resolved THEN
        [ inc EXCEPT !.manual_intervention = TRUE,
                     !.intervention_type = Some("customer_support") ]
    ELSE inc

\* the block after the while loop
AfterRetries(inc) ==
    IF ~inc.resolved THEN
        [ inc EXCEPT !.manual_intervention = TRUE,
                     !.intervention_type =
                         IF inc.intervention_type = None
                         THEN Some("customer_support")
                         ELSE inc.intervention_type ]
    ELSE inc

\* while retry_count < max_retries and not incident.resolved
LoopCondition_OneRound(rc, inc) == rc < 1 /\ ~inc.resolved

LoopCondition(rc, inc) == rc < max_retries /\ ~inc.resolved

----------------------------------------------------------------------------
(* State machine *)

Init ==
    /\ signup_attempts = << >>
    /\ failure_incidents = << >>
    /\ i = 0
    /\ pc = "simulate"
    /\ signup = None
    /\ incident = 0
    /\ retry_count = 0
    /\ caller = "simulate"
    /\ returned = None
    /\ raised = FALSE
    /\ results = None

\* _simulate_retries returns to its caller: simulate_signup_attempts appends
\* the original attempt and moves to the next loop index
ReturnFromRetries(attempts, incidents, original) ==
    /\ failure_incidents' = incidents
    /\ pc' = IF caller = "simulate" THEN "simulate" ELSE "called"
    /\ signup' = None
    /\ incident' = 0
    /\ retry_count' = 0
    /\ caller' = "simulate"
    /\ IF caller = "simulate"
       THEN /\ signup_attempts' = AppendAttempt(attempts, original)
            /\ i' = i + 1
       ELSE /\ signup_attempts' = attempts
            /\ i' = i

\* one iteration of the for loop, will_fail false
SimulateSuccess(draw, days) ==
    /\ pc = "simulate"
    /\ i < NumAttempts
    /\ ~(draw < FailurePercent)
    /\ signup_attempts' =
           AppendAttempt(signup_attempts,
                         SignupAttempt(i, Now - days * MinutesPerDay, TRUE, None))
    /\ i' = i + 1
    /\ UNCHANGED <<failure_incidents, pc, signup, incident, retry_count,
                   caller, returned, raised, results>>

\* one iteration of the for loop, will_fail true, up to the head of the
\* while loop of _simulate_retries (or to the next iteration when the
\* cascade is skipped)
SimulateFailure(draw, days, rand, idrand) ==
    /\ pc = "simulate"
    /\ i < NumAttempts
    /\ draw < FailurePercent
    /\ LET timestamp == Now - days * MinutesPerDay
           inc == _generate_failure_incident(
                      << "signup_", i >>, providers[(i % Len(providers)) + 1],
                      timestamp, rand, idrand)
           incidents == Append(failure_incidents, inc)
           original == SignupAttempt(i, timestamp, FALSE, Some(Len(incidents)))
       IN  IF inc.failure_type \in NoRetryTypes
           THEN /\ failure_incidents' = incidents
                /\ signup_attempts' = AppendAttempt(signup_attempts, original)
                /\ i' = i + 1
                /\ UNCHANGED <<pc, signup, incident, retry_count, caller>>
           ELSE /\ failure_incidents' = incidents
                /\ pc' = "retry"
                /\ signup' = Some(original)
                /\ incident' = Len(incidents)
                /\ retry_count' = 0
                /\ caller' = "simulate"
                /\ UNCHANGED <<signup_attempts, i>>
    /\ UNCHANGED <<returned, raised, results>>

\* one iteration of the while loop of _simulate_retries; when the loop ends
\* with it, also the block after the loop and the return to the caller
RetryRound(draw) ==
    /\ pc = "retry"
    /\ LET original == signup[1]
           inc == failure_incidents[incident]
           rc == retry_count + 1
           retry_success == draw < RetrySuccessPercent
           attempts == AppendAttempt(signup_attempts,
                                     RetryAttempt(original, inc, rc, retry_success))
           inc2 == IF retry_success THEN ResolveIncident(inc, rc) ELSE inc
       IN  IF ~retry_success /\ LoopCondition(rc, inc2)
           THEN /\ signup_attempts' = attempts
                /\ retry_count' = rc
                /\ UNCHANGED <<failure_incidents, i, pc, signup, incident, caller>>
           ELSE ReturnFromRetries(
                    attempts,
                    [failure_incidents EXCEPT ![incident] = AfterRetries(inc2)],
                    original)
    /\ UNCHANGED <<returned, raised, results>>

----------------------------------------------------------------------------
(* calculate_reliability_metrics *)

\* a / b if b > 0 else 0, as the pair <<numerator, denominator>>
Ratio(a, b) == IF b > 0 THEN << a, b >> ELSE << 0, 1 >>

\* 1 - r
OneMinus(r) == << r[2] - r[1], r[2] >>

\* r = q and r <= q for two such pairs
RatEq(r, q) == r[1] * q[2] = q[1] * r[2]
RatLeq(r, q) == r[1] * q[2] <= q[1] * r[2]

RECURSIVE SumSeq(_)
SumSeq(xs) == IF xs = << >> THEN 0 ELSE Head(xs) + SumSeq(Tail(xs))

RECURSIVE MaxSeq(_)
MaxSeq(xs) ==
    IF Len(xs) = 1 THEN xs[1]
    ELSE LET m == MaxSeq(Tail(xs)) IN IF Head(xs) >= m THEN Head(xs) ELSE m

\* failed_attempts, successful_attempts
FailedAttempts(attempts) == SelectSeq(attempts, LAMBDA a : ~a.success)
SuccessfulAttempts(attempts) == SelectSeq(attempts, LAMBDA a : a.success)

\* retry_attempts, original_failures, successful_retries
RetryAttempts(attempts) == SelectSeq(attempts, LAMBDA a : a.retry_of # None)
OriginalFailures(attempts) ==
    SelectSeq(attempts, LAMBDA a : ~a.success /\ a.retry_of = None)
SuccessfulRetries(attempts) == SelectSeq(RetryAttempts(attempts), LAMBDA a : a.success)

\* failure_rate
FailureRate(attempts) == Ratio(Len(FailedAttempts(attempts)), Len(attempts))

SuccessRate_FromOriginals(attempts) ==
    Ratio(Len(SuccessfulAttempts(attempts)),
          Len(attempts) - Len(RetryAttempts(attempts)))

\* 'success_rate': 1 - failure_rate
SuccessRate(attempts) == OneMinus(FailureRate(attempts))

\* retry_success_rate
RetrySuccessRate(attempts) ==
    Ratio(Len(SuccessfulRetries(attempts)), Len(OriginalFailures(attempts)))

\* the list with x inserted before the first element greater than x
RECURSIVE Insert(_, _)
Insert(x, xs) ==
    IF xs = << >> THEN << x >>
    ELSE IF x < Head(xs) THEN << x >> \o xs
    ELSE << Head(xs) >> \o Insert(x, Tail(xs))

Sorted_Unsorted(xs) == xs

RECURSIVE Sorted(_)

\* failure_times.sort()
Sorted(xs) == IF xs = << >> THEN << >> ELSE Insert(xs[Len(xs)], Sorted(SubSeq(xs, 1, Len(xs) - 1)))

\* time_deltas = [failure_times[i+1] - failure_times[i] ...]
TimeDeltas(times) == [ n \in 1..(Len(times) - 1) |-> times[n + 1] - times[n] ]

\* mtbf_hours of a list of failure timestamps (minutes): None stands for
\* float('inf'); otherwise sum(time_deltas) / len(time_deltas) / 3600 s
MtbfHours(failure_times) ==
    IF Len(failure_times) > 1
    THEN LET time_deltas == TimeDeltas(Sorted(failure_times))
         IN  Some(<< SumSeq(time_deltas), Len(time_deltas) * 60 >>)
    ELSE None

\* 'mtbf_hours': mtbf_hours if mtbf_hours != float('inf') else 0
ReportedMtbf(mtbf_hours) == IF mtbf_hours # None THEN mtbf_hours[1] ELSE << 0, 1 >>

FailureTimes(attempts) ==
    LET failed == FailedAttempts(attempts) IN
    [ n \in 1..Len(failed) |-> failed[n].timestamp ]

\* resolved_incidents
ResolvedIncidents(incidents) == SelectSeq(incidents, LAMBDA n : n.resolved)

\* recovery_times: minutes from the incident's timestamp to its resolution,
\* of the resolved incidents that have a resolution_time
RecoveryTimes(incidents) ==
    LET timed == SelectSeq(ResolvedIncidents(incidents),
                           LAMBDA n : n.resolution_time # None)
    IN  [ n \in 1..Len(timed) |-> timed[n].resolution_time[1] - timed[n].timestamp ]

\* avg_recovery_time
AvgRecoveryTime(incidents) ==
    LET recovery_times == RecoveryTimes(incidents) IN
    Ratio(SumSeq(recovery_times), Len(recovery_times))

MaxRecoveryTime_Last(incidents) ==
    LET recovery_times == RecoveryTimes(incidents) IN
    IF recovery_times # << >> THEN recovery_times[Len(recovery_times)] ELSE 0

\* max_recovery_time
MaxRecoveryTime(incidents) ==
    LET recovery_times == RecoveryTimes(incidents) IN
    IF recovery_times # << >> THEN MaxSeq(recovery_times) ELSE 0

\* counts[key] = counts.get(key, 0) + 1 on a dict, kept as the list of its
\* <<key, count>> items in insertion order
Increment(counts, key) ==
    IF \E n \in 1..Len(counts) : counts[n][1] = key
    THEN [ n \in 1..Len(counts) |->
             IF counts[n][1] = key THEN << key, counts[n][2] + 1 >> ELSE counts[n] ]
    ELSE Append(counts, << key, 1 >>)

\* failure_type_counts: for incident in self.failure_incidents
RECURSIVE FailureTypeCounts(_)
FailureTypeCounts(incidents) ==
    IF incidents = << >> THEN << >>
    ELSE Increment(FailureTypeCounts(SubSeq(incidents, 1, Len(incidents) - 1)),
                   incidents[Len(incidents)].failure_type)

RECURSIVE MaxItem_Last(_)
MaxItem_Last(items) ==
    IF Len(items) = 1 THEN items[1]
    ELSE LET m == MaxItem_Last(Tail(items)) IN
         IF Head(items)[2] > m[2] THEN Head(items) ELSE m

\* max(items, key=lambda x: x[1]): the first item with the greatest count
RECURSIVE MaxItem(_)
MaxItem(items) ==
    IF Len(items) = 1 THEN items[1]
    ELSE LET m == MaxItem(Tail(items)) IN
         IF Head(items)[2] >= m[2] THEN Head(items) ELSE m

\* 'most_common_failure'
MostCommonFailure(counts) == IF counts # << >> THEN Some(MaxItem(counts)[1]) ELSE None

\* manual_interventions
ManualInterventions(incidents) == SelectSeq(incidents, LAMBDA n : n.manual_intervention)

InterventionRate_PerIncident(incidents, attempts) ==
    Ratio(Len(ManualInterventions(incidents)), Len(incidents))

\* intervention_rate
InterventionRate(incidents, attempts) ==
    Ratio(Len(ManualInterventions(incidents)), Len(attempts))

\* intervention_type_counts: for incident in manual_interventions
RECURSIVE InterventionTypeCounts(_)
InterventionTypeCounts(manual) ==
    IF manual = << >> THEN << >>
    ELSE LET rest == InterventionTypeCounts(SubSeq(manual, 1, Len(manual) - 1))
             last == manual[Len(manual)]
         IN  IF last.intervention_type # None
             THEN Increment(rest, last.intervention_type[1])
             ELSE rest

\* provider_metrics
ProviderMetrics(attempts) ==
    LET provider_set == { attempts[n].provider : n \in 1..Len(attempts) } IN
    [ provider \in provider_set |->
        LET provider_attempts == SelectSeq(attempts, LAMBDA a : a.provider = provider)
            provider_failures == FailedAttempts(provider_attempts)
        IN  [ total_attempts |-> Len(provider_attempts),
              failures |-> Len(provider_failures),
              failure_rate |->
                  IF provider_attempts # << >>
                  THEN << Len(provider_failures), Len(provider_attempts) >>
                  ELSE << 0, 1 >>,
              success_rate |->
                  IF provider_attempts # << >>
                  THEN OneMinus(<< Len(provider_failures), Len(provider_attempts) >>)
                  ELSE << 0, 1 >> ] ]

\* the lists after calculate_reliability_metrics: it assigns to neither and
\* sorts only its own list of failure times
AttemptsAfterMetrics_SortedInPlace(attempts) ==
    IF attempts = << >> THEN attempts
    ELSE SelectSeq(attempts, LAMBDA a : a.timestamp <= attempts[1].timestamp)
           \o SelectSeq(attempts, LAMBDA a : a.timestamp > attempts[1].timestamp)

AttemptsAfterMetrics(attempts) == attempts

\* the dict calculate_reliability_metrics returns (without its 'timestamp')
calculate_reliability_metrics ==
    [ total_attempts |-> Len(signup_attempts),
      successful_attempts |-> Len(SuccessfulAttempts(signup_attempts)),
      failed_attempts |-> Len(FailedAttempts(signup_attempts)),
      failure_rate |-> FailureRate(signup_attempts),
      success_rate |-> SuccessRate(signup_attempts),
      mtbf_hours |-> ReportedMtbf(MtbfHours(FailureTimes(signup_attempts))),
      total_retries |-> Len(RetryAttempts(signup_attempts)),
      successful_retries |-> Len(SuccessfulRetries(signup_attempts)),
      retry_success_rate |-> RetrySuccessRate(signup_attempts),
      avg_recovery_time_minutes |-> AvgRecoveryTime(failure_incidents),
      max_recovery_time_minutes |-> MaxRecoveryTime(failure_incidents),
      resolved_incidents |-> Len(ResolvedIncidents(failure_incidents)),
      total_incidents |-> Len(failure_incidents),
      manual_interventions |-> Len(ManualInterventions(failure_incidents)),
      intervention_rate |-> InterventionRate(failure_incidents, signup_attempts),
      intervention_types |-> InterventionTypeCounts(ManualInterventions(failure_incidents)),
      failure_types |-> FailureTypeCounts(failure_incidents),
      most_common_failure |-> MostCommonFailure(FailureTypeCounts(failure_incidents)),
      provider_metrics |-> ProviderMetrics(signup_attempts) ]

\* run_reliability_evaluation: the for loop has ended, the metrics are computed
Metrics ==
    /\ pc = "simulate"
    /\ i = NumAttempts
    /\ results' = Some(calculate_reliability_metrics)
    /\ signup_attempts' = AttemptsAfterMetrics(signup_attempts)
    /\ pc' = "done"
    /\ UNCHANGED <<failure_incidents, i, signup, incident,
                   retry_count, caller, returned, raised>>

Next ==
    \/ \E draw \in WillFailDraws, days \in DayDraws : SimulateSuccess(draw, days)
    \/ \E draw \in WillFailDraws, days \in DayDraws, rand \in Draws, idrand \in IdDraws :
           SimulateFailure(draw, days, rand, idrand)
    \/ \E draw \in RetryDraws : RetryRound(draw)
    \/ Metrics

Spec == Init /\ [][Next]_vars

\* simulate_signup_attempts(num_attempts = NumAttempts) alone: the
\* construction of the two lists, without the metrics that follow it
NextSimulate ==
    \/ \E draw \in WillFailDraws, days \in DayDraws : SimulateSuccess(draw, days)
    \/ \E draw \in WillFailDraws, days \in DayDraws, rand \in Draws, idrand \in IdDraws :
           SimulateFailure(draw, days, rand, idrand)
    \/ \E draw \in RetryDraws : RetryRound(draw)

SpecSimulate == Init /\ [][NextSimulate]_vars

\* the while loop of _simulate_retries runs its body as long as its
\* condition holds, nothing suspends it: a round that is possible is
\* eventually taken
FairSpec == Init /\ [][Next]_vars /\ WF_vars(\E draw \in RetryDraws : RetryRound(draw))

----------------------------------------------------------------------------
(* A method of the evaluator called directly, with arguments of the        *)
(* caller's choice; the call is the last thing that happens (pc = "called") *)

\* _generate_failure_incident(signup_id, provider, timestamp) for any
\* provider string; it reads nothing of the evaluator's lists, so it is
\* called on the fresh evaluator
CallGenerateFailureIncident(provider, days, rand, idrand) ==
    /\ pc = "simulate"
    /\ i = 0
    /\ pc' = "called"
    /\ returned' = Some(_generate_failure_incident(
                            << "signup_", i >>, provider,
                            Now - days * MinutesPerDay, rand, idrand))
    /\ UNCHANGED <<signup_attempts, failure_incidents, i, signup, incident,
                   retry_count, caller, raised, results>>

\* calculate_reliability_metrics() called by itself, on the evaluator as
\* simulate_signup_attempts(num_attempts = i) leaves it (i = 0: the fresh
\* evaluator, no attempt in the ledger; i = NumAttempts is Metrics)
CallCalculateReliabilityMetrics ==
    /\ pc = "simulate"
    /\ i < NumAttempts
    /\ pc' = "called"
    /\ results' = Some(calculate_reliability_metrics)
    /\ signup_attempts' = AttemptsAfterMetrics(signup_attempts)
    /\ UNCHANGED <<failure_incidents, i, signup, incident,
                   retry_count, caller, returned, raised>>

\* the attempt whose failure_incident is incident k
OwnerOf(k) ==
    CHOOSE a \in { signup_attempts[n] : n \in 1..Len(signup_attempts) } :
        a.failure_incident = Some(k)

\* _simulate_retries(original_signup, incident) on an incident of the ledger,
\* up to the head of its while loop (or to its return when the loop is not
\* entered)
CallSimulateRetries(k) ==
    /\ pc = "simulate"
    /\ k \in 1..Len(failure_incidents)
    /\ LET inc == failure_incidents[k] IN
       IF inc.failure_type \in NoRetryTypes
       THEN /\ pc' = "called"
            /\ UNCHANGED <<failure_incidents, signup, incident, retry_count, caller>>
       ELSE IF LoopCondition(0, inc)
       THEN /\ pc' = "retry"
            /\ signup' = Some(OwnerOf(k))
            /\ incident' = k
            /\ retry_count' = 0
            /\ caller' = "direct"
            /\ UNCHANGED failure_incidents
       ELSE /\ pc' = "called"
            /\ failure_incidents' = [failure_incidents EXCEPT ![k] = AfterRetries(inc)]
            /\ UNCHANGED <<signup, incident, retry_count, caller>>
    /\ UNCHANGED <<signup_attempts, i, returned, raised, results>>

NextDirect ==
    \/ Next
    \/ \E provider \in OpenProviders, days \in DayDraws, rand \in Draws, idrand \in IdDraws :
           CallGenerateFailureIncident(provider, days, rand, idrand)
    \/ \E k \in 1..NumAttempts : CallSimulateRetries(k)
    \/ CallCalculateReliabilityMetrics

SpecDirect == Init /\ [][NextDirect]_vars

\* _generate_failure_incident by itself, for every provider string, every day
\* of random.randint(0, 30) and every hundredth of random.random()
NextClassify ==
    \E provider \in OpenProviders, days \in 0..MaxDays, rand \in 0..99, idrand \in IdDraws :
        CallGenerateFailureIncident(provider, days, rand, idrand)

SpecClassify == Init /\ [][NextClassify]_vars

----------------------------------------------------------------------------
(* Properties of the retry cascade *)

IncidentIds == 1..Len(failure_incidents)

\* the retry attempts of an original attempt, in ledger order
RetriesOf(signup_id) ==
    SelectSeq(signup_attempts, LAMBDA a : a.retry_of = Some(signup_id))

\* the cascade of incident k is running
CascadeRunning(k) == pc = "retry" /\ incident = k

\* the cascade of incident k ran all its rounds without a success
Exhausted(k) ==
    LET r == RetriesOf(failure_incidents[k].signup_id) IN
    /\ ~CascadeRunning(k)
    /\ Len(r) = max_retries
    /\ \A j \in 1..Len(r) : ~r[j].success

\* the for loop of simulate_signup_attempts has ended
Finalized == i = NumAttempts /\ pc # "retry"

\* C1: an incident of category program_full or payment_declined has no retry
\* attempt, retry_count 0, resolved false and manual_intervention false, in
\* every state of the run from its creation on (so it never becomes resolved)
C1_NoRetryForIneligible ==
    \A k \in IncidentIds :
        LET inc == failure_incidents[k] IN
        inc.failure_type \in { "program_full", "payment_declined" } =>
            /\ RetriesOf(inc.signup_id) = << >>
            /\ inc.retry_count = 0
            /\ inc.resolved = FALSE
            /\ inc.resolution_time = None
            /\ inc.manual_intervention = FALSE
            /\ ~CascadeRunning(k)

C1_Witness ==
    /\ Finalized
    /\ \E k \in IncidentIds : failure_incidents[k].failure_type = "payment_declined"
    /\ \E k \in IncidentIds : failure_incidents[k].failure_type = "program_full"

\* C2: an incident of a retry-eligible category has retry_count in 0..3, and
\* when it is resolved retry_count >= 1 and resolution_time is its timestamp
\* plus retry_count * 5 minutes
C2_RetryCountAndResolutionTime ==
    \A k \in IncidentIds :
        LET inc == failure_incidents[k] IN
        inc.failure_type \notin { "program_full", "payment_declined" } =>
            /\ inc.retry_count \in 0..3
            /\ inc.resolved =>
                   /\ inc.retry_count >= 1
                   /\ inc.resolution_time = Some(inc.timestamp + inc.retry_count * 5)

C2_Witness ==
    \E k \in IncidentIds :
        /\ failure_incidents[k].resolved
        /\ failure_incidents[k].retry_count = 2
        /\ failure_incidents[k].failure_type = "rate_limited"

\* C3: when all 3 rounds of a cascade failed, the incident is unresolved with
\* manual_intervention true; its intervention kind is the classifier's
\* (manual_login for captcha_challenge, credential_update for
\* authentication_failed, customer_support for site_maintenance) and
\* customer_support when the classifier set none
C3_ExhaustedNeedsIntervention ==
    \A k \in IncidentIds :
        LET inc == failure_incidents[k] IN
        Exhausted(k) =>
            /\ inc.resolved = FALSE
            /\ inc.resolution_time = None
            /\ inc.manual_intervention = TRUE
            /\ inc.intervention_type =
                   IF inc.failure_type = "captcha_challenge" THEN Some("manual_login")
                   ELSE IF inc.failure_type = "authentication_failed"
                        THEN Some("credential_update")
                   ELSE Some("customer_support")

C3_Witness ==
    /\ \E k \in IncidentIds :
           Exhausted(k) /\ failure_incidents[k].failure_type = "authentication_failed"
    /\ \E k \in IncidentIds :
           Exhausted(k) /\ failure_incidents[k].failure_type = "network_timeout"

\* C4: an incident with retry_count = 3 and resolved false has
\* manual_intervention true
C4_ThreeRetriesUnresolved ==
    \A k \in IncidentIds :
        LET inc == failure_incidents[k] IN
        (inc.retry_count = 3 /\ inc.resolved = FALSE) =>
            inc.manual_intervention = TRUE

\* the case of C4 never arises: retry_count is written only by the success
\* branch, together with resolved = TRUE
C4_CaseNeverArises ==
    \A k \in IncidentIds :
        ~(failure_incidents[k].retry_count = 3 /\ failure_incidents[k].resolved = FALSE)

\* C5: when round k of a cascade succeeds, the ledger holds exactly k retry
\* attempts of the original: the first k-1 failed, the k-th successful with
\* timestamp = incident timestamp + 5k minutes, id = original id + _retry_k
\* and retry_of = the original id; the incident is resolved with
\* resolution_time = that timestamp and retry_count = k; the cascade has
\* stopped, and no further retry of that original appears in any later state
C5_SuccessStopsCascade ==
    \A k \in IncidentIds :
        LET inc == failure_incidents[k]
            r == RetriesOf(inc.signup_id)
            n == inc.retry_count
        IN  inc.resolved =>
                /\ n \in 1..3
                /\ Len(r) = n
                /\ \A j \in 1..(n - 1) : r[j].success = FALSE
                /\ r[n].success = TRUE
                /\ r[n].timestamp = inc.timestamp + 5 * n
                /\ r[n].signup_id = inc.signup_id \o << "_retry_", n >>
                /\ r[n].retry_of = Some(inc.signup_id)
                /\ inc.resolution_time = Some(r[n].timestamp)
                /\ ~CascadeRunning(k)

\* draws [fail, fail, success]: 2 failed + 1 successful retry, retry_count 3,
\* resolution_time = t0 + 15 minutes
C5_Witness ==
    \E k \in IncidentIds :
        LET inc == failure_incidents[k]
            r == RetriesOf(inc.signup_id)
        IN  /\ Finalized
            /\ inc.resolved
            /\ inc.retry_count = 3
            /\ Len(r) = 3
            /\ ~r[1].success /\ ~r[2].success /\ r[3].success
            /\ inc.resolution_time = Some(inc.timestamp + 15)

\* C6: after a cascade has ended, the incident's retry_count is the number
\* of retry attempts created for its original attempt
C6_RetryCountIsRetriesConsumed ==
    \A k \in IncidentIds :
        ~CascadeRunning(k) =>
            failure_incidents[k].retry_count =
                Len(RetriesOf(failure_incidents[k].signup_id))

\* C7: once the run is finalized, every incident whose category is
\* captcha_challenge, site_maintenance or authentication_failed, or whose
\* cascade was exhausted, has manual_intervention true, resolved or not
C7_InterventionFlag ==
    Finalized =>
        \A k \in IncidentIds :
            LET inc == failure_incidents[k] IN
            \/ inc.failure_type \in
                   { "captcha_challenge", "site_maintenance", "authentication_failed" }
            \/ Exhausted(k)
            => inc.manual_intervention = TRUE

C7_Witness ==
    /\ Finalized
    /\ \E k \in IncidentIds :
           /\ failure_incidents[k].failure_type = "authentication_failed"
           /\ failure_incidents[k].resolved
           /\ failure_incidents[k].manual_intervention
    /\ \E k \in IncidentIds :
           /\ failure_incidents[k].failure_type = "form_validation_error"
           /\ Exhausted(k)
           /\ failure_incidents[k].manual_intervention

\* C8: the retry attempts of one original stand in the ledger in round
\* order: the j-th has id = original id + _retry_j, timestamp = incident
\* timestamp + 5j minutes and retry_of = the original id, and every one
\* before the last has failed; after a failed round k < 3 the cascade is
\* still running with round k+1 next
C8_FailedRoundsInOrder ==
    \A k \in IncidentIds :
        LET inc == failure_incidents[k]
            r == RetriesOf(inc.signup_id)
        IN  /\ Len(r) <= 3
            /\ \A j \in 1..Len(r) :
                   /\ r[j].signup_id = inc.signup_id \o << "_retry_", j >>
                   /\ r[j].timestamp = inc.timestamp + 5 * j
                   /\ r[j].retry_of = Some(inc.signup_id)
                   /\ j < Len(r) => r[j].success = FALSE
            /\ \A j \in 1..(Len(r) - 1) : r[j].timestamp < r[j + 1].timestamp
            /\ (Len(r) \in 1..2 /\ r[Len(r)].success = FALSE) =>
                   CascadeRunning(k) /\ retry_count = Len(r)

C8_Witness ==
    \E k \in IncidentIds :
        LET r == RetriesOf(failure_incidents[k].signup_id) IN
        /\ Len(r) = 3
        /\ ~r[1].success /\ ~r[2].success /\ ~r[3].success
        /\ Len(signup_attempts) > 4

----------------------------------------------------------------------------
(* Properties of direct calls (SpecDirect) *)

\* C9: classifying a failure for a provider without a weight table raises
\* an error and produces no incident
C9_UnknownProviderFailsFast ==
    returned # None =>
        returned[1].provider \in { "skiclubpro", "daysmart", "campminder" }

\* C10: running the cascade again on an incident that is already resolved
\* raises an error and leaves the incident unchanged
C10_ResolvedIncidentRejected ==
    [][ \A k \in 1..NumAttempts :
            (CallSimulateRetries(k) /\ failure_incidents[k].resolved) =>
                (raised' /\ failure_incidents' = failure_incidents) ]_vars

----------------------------------------------------------------------------
(* Properties of the metrics snapshot (pc = "done": the snapshot is         *)
(* results[1], computed from the finalized ledger)                          *)

AttemptIds == 1..Len(signup_attempts)

\* the number of failed attempts in the ledger, retries included
NumFailed == Cardinality({ n \in AttemptIds : ~signup_attempts[n].success })

\* C11: with 0 or 1 failed attempt the snapshot's MTBF is an "undefined"
\* value, different from the 0 of a true zero MTBF
C11_UndefinedMtbfIsDistinct ==
    (pc = "done" /\ NumFailed <= 1) => results[1].mtbf_hours[1] # 0

\* the number of incidents of a category, the place of its first incident in
\* the incident list, and its place in the declaration order of FailureType
IncidentCount(c) == Cardinality({ k \in IncidentIds : failure_incidents[k].failure_type = c })
FirstIncident(c) ==
    CHOOSE k \in IncidentIds :
        /\ failure_incidents[k].failure_type = c
        /\ \A j \in 1..(k - 1) : failure_incidents[j].failure_type # c
DeclarationIndex(c) == CHOOSE n \in 1..Len(FailureType) : FailureType[n] = c

\* the categories that share the highest incident count
TopCategories ==
    { c \in { failure_incidents[k].failure_type : k \in IncidentIds } :
        \A k \in IncidentIds :
            IncidentCount(failure_incidents[k].failure_type) <= IncidentCount(c) }

\* C12 as stated: on a tie most_common_failure is the tied category that is
\* declared first in FailureType
C12_TieByDeclarationOrder ==
    (pc = "done" /\ Cardinality(TopCategories) >= 2) =>
        \E c \in TopCategories :
            /\ results[1].most_common_failure = Some(c)
            /\ \A d \in TopCategories : DeclarationIndex(c) <= DeclarationIndex(d)

\* C12 amended: on a tie most_common_failure is the tied category whose
\* first incident comes first in the incident list
C12_TieByFirstIncident ==
    (pc = "done" /\ Cardinality(TopCategories) >= 2) =>
        \E c \in TopCategories :
            /\ results[1].most_common_failure = Some(c)
            /\ \A d \in TopCategories : FirstIncident(c) <= FirstIncident(d)

C12_Witness ==
    /\ pc = "done"
    /\ Cardinality(TopCategories) >= 2
    /\ \E c, d \in TopCategories :
           /\ results[1].most_common_failure = Some(c)
           /\ FirstIncident(c) < FirstIncident(d)
           /\ DeclarationIndex(d) < DeclarationIndex(c)

\* the providers that appear in the attempt list
ProvidersSeen == { signup_attempts[n].provider : n \in AttemptIds }

\* C13: with at least one attempt, failure_rate is failed attempts / total
\* attempts (retries included) and failure_rate + success_rate = 1, overall
\* and for every provider in the attempt list; failed + successful = total
C13_RatesSumToOne ==
    (pc = "done" /\ Len(signup_attempts) >= 1) =>
        LET r == results[1] IN
        /\ r.total_attempts = Len(signup_attempts)
        /\ r.failed_attempts = NumFailed
        /\ r.failed_attempts + r.successful_attempts = r.total_attempts
        /\ RatEq(r.failure_rate, << NumFailed, Len(signup_attempts) >>)
        /\ r.failure_rate[2] = r.success_rate[2]
        /\ r.failure_rate[1] + r.success_rate[1] = r.failure_rate[2]
        /\ DOMAIN r.provider_metrics = ProvidersSeen
        /\ \A p \in ProvidersSeen :
               LET m == r.provider_metrics[p]
                   total == Cardinality({ n \in AttemptIds : signup_attempts[n].provider = p })
                   failed == Cardinality({ n \in AttemptIds :
                                 signup_attempts[n].provider = p /\ ~signup_attempts[n].success })
               IN  /\ m.total_attempts = total
                   /\ m.failures = failed
                   /\ RatEq(m.failure_rate, << failed, total >>)
                   /\ m.failure_rate[2] = m.success_rate[2]
                   /\ m.failure_rate[1] + m.success_rate[1] = m.failure_rate[2]

\* a ledger with failed and successful retries, and two providers
C13_Witness ==
    /\ pc = "done"
    /\ Cardinality(ProvidersSeen) = 2
    /\ \E n, m \in AttemptIds :
           /\ signup_attempts[n].retry_of # None /\ ~signup_attempts[n].success
           /\ signup_attempts[m].retry_of # None /\ signup_attempts[m].success

\* a ratio of the snapshot lies in [0, 1]
InUnitInterval(r) == r[2] > 0 /\ 0 <= r[1] /\ r[1] <= r[2]

\* C14: every ratio of the snapshot (failure rate, success rate, retry
\* success rate, intervention rate, the rates per provider) has numerator <=
\* denominator and lies in [0, 1], and a ratio whose denominator is zero is
\* reported as 0
C14_RatiosInUnitInterval ==
    results # None =>
        LET r == results[1]
            originals == Cardinality({ n \in AttemptIds :
                             /\ ~signup_attempts[n].success
                             /\ signup_attempts[n].retry_of = None })
        IN  /\ InUnitInterval(r.failure_rate)
            /\ InUnitInterval(r.success_rate)
            /\ InUnitInterval(r.retry_success_rate)
            /\ InUnitInterval(r.intervention_rate)
            /\ r.successful_retries <= originals
            /\ r.manual_interventions <= r.total_attempts
            /\ originals > 0 =>
                   RatEq(r.retry_success_rate, << r.successful_retries, originals >>)
            /\ originals = 0 => r.retry_success_rate[1] = 0
            /\ r.total_attempts = 0 =>
                   /\ r.failure_rate[1] = 0
                   /\ r.success_rate[1] = 0
                   /\ r.intervention_rate[1] = 0
            /\ \A p \in DOMAIN r.provider_metrics :
                   /\ InUnitInterval(r.provider_metrics[p].failure_rate)
                   /\ InUnitInterval(r.provider_metrics[p].success_rate)

\* the incident list with the incidents of S marked manual_intervention
MarkManual(S) ==
    [ k \in IncidentIds |->
        IF k \in S THEN [ failure_incidents[k] EXCEPT !.manual_intervention = TRUE ]
        ELSE failure_incidents[k] ]

\* C15: intervention rate = incidents with manual_intervention / total
\* attempts, and marking more incidents manual_intervention on the same
\* attempts does not lower it
C15_InterventionRate ==
    pc = "done" =>
        LET manual == { k \in IncidentIds : failure_incidents[k].manual_intervention } IN
        /\ RatEq(results[1].intervention_rate,
                 << Cardinality(manual), Len(signup_attempts) >>)
        /\ \A S \in SUBSET (IncidentIds \ manual) :
               /\ RatLeq(results[1].intervention_rate,
                         InterventionRate(MarkManual(S), signup_attempts))
               /\ RatEq(InterventionRate(MarkManual(S), signup_attempts),
                        << Cardinality(manual) + Cardinality(S), Len(signup_attempts) >>)

C15_Witness ==
    /\ pc = "done"
    /\ \E k, j \in IncidentIds :
           /\ failure_incidents[k].manual_intervention
           /\ ~failure_incidents[j].manual_intervention
    /\ Len(signup_attempts) > Len(failure_incidents)

\* the timestamps of the failed attempts
FailedTimes == { signup_attempts[n].timestamp : n \in { m \in AttemptIds : ~signup_attempts[m].success } }

\* C16: with at least 2 failed attempts MTBF (hours) is
\* (latest - earliest failure) / (n - 1), whatever the order of the attempts
\* in the ledger; failures at t and t + 2 h give exactly 2 hours
C16_MtbfIsMeanGap ==
    pc = "done" =>
        /\ NumFailed >= 2 =>
               LET times == FailedTimes
                   latest == CHOOSE t \in times : \A u \in times : u <= t
                   earliest == CHOOSE t \in times : \A u \in times : t <= u
               IN  RatEq(results[1].mtbf_hours,
                         << latest - earliest, 60 * (NumFailed - 1) >>)
        /\ \A d \in DayDraws :
               LET t == Now - d * MinutesPerDay IN
               /\ RatEq(ReportedMtbf(MtbfHours(<< t, t + 120 >>)), << 2, 1 >>)
               /\ RatEq(ReportedMtbf(MtbfHours(<< t + 120, t >>)), << 2, 1 >>)

\* failed attempts that stand in the ledger in descending time order
C16_Witness ==
    /\ pc = "done"
    /\ NumFailed >= 3
    /\ \E n, m \in AttemptIds :
           /\ n < m
           /\ ~signup_attempts[n].success /\ ~signup_attempts[m].success
           /\ signup_attempts[m].timestamp < signup_attempts[n].timestamp
    /\ ~signup_attempts[1].success
    /\ ~signup_attempts[Len(signup_attempts)].success
    /\ signup_attempts[Len(signup_attempts)].timestamp < signup_attempts[1].timestamp

ResolvedIds == { k \in IncidentIds : failure_incidents[k].resolved }

\* minutes from the creation of incident k to its resolution
RecoveryOf(k) == failure_incidents[k].resolution_time[1] - failure_incidents[k].timestamp

RECURSIVE RecoverySum(_)
RecoverySum(S) ==
    IF S = {} THEN 0
    ELSE LET k == CHOOSE j \in S : TRUE IN RecoveryOf(k) + RecoverySum(S \ {k})

\* C17: recovery time is taken over exactly the resolved incidents, as
\* resolution_time - timestamp in minutes: the snapshot has their mean and
\* their maximum, and 0 and 0 when no incident is resolved
C17_RecoveryTime ==
    pc = "done" =>
        LET r == results[1] IN
        /\ r.resolved_incidents = Cardinality(ResolvedIds)
        /\ IF ResolvedIds = {}
           THEN r.avg_recovery_time_minutes[1] = 0 /\ r.max_recovery_time_minutes = 0
           ELSE /\ RatEq(r.avg_recovery_time_minutes,
                         << RecoverySum(ResolvedIds), Cardinality(ResolvedIds) >>)
                /\ \E k \in ResolvedIds : r.max_recovery_time_minutes = RecoveryOf(k)
                /\ \A k \in ResolvedIds : RecoveryOf(k) <= r.max_recovery_time_minutes

\* two resolved incidents, the first with the longer recovery
C17_Witness ==
    /\ pc = "done"
    /\ Cardinality(ResolvedIds) = 2
    /\ RecoveryOf(1) = 15
    /\ RecoveryOf(2) = 5

CascadeEnded(k) ==
    /\ ~CascadeRunning(k)
    /\ failure_incidents[k].resolved \/ Exhausted(k)

\* C19: a retry cascade that starts ends after at most 3 rounds, resolved or
\* exhausted, whatever the retry draws; none is left mid-way, and the
\* metrics are computed only after every cascade of the run has ended
C19_CascadeTerminates ==
    /\ [](/\ pc = "retry" =>
                /\ retry_count < max_retries
                /\ incident \in IncidentIds
                /\ Len(RetriesOf(failure_incidents[incident].signup_id)) = retry_count
          /\ \A k \in IncidentIds :
                /\ Len(RetriesOf(failure_incidents[k].signup_id)) <= max_retries
                /\ failure_incidents[k].failure_type \notin NoRetryTypes =>
                       CascadeRunning(k) \/ CascadeEnded(k)
          /\ results # None =>
                /\ Finalized
                /\ Len(signup_attempts) >= NumAttempts
                /\ \A k \in IncidentIds : ~CascadeRunning(k))
    /\ (pc = "retry") ~> (pc # "retry")

\* a finished run with one cascade that was resolved and one that ran all
\* three rounds
C19_Witness ==
    /\ pc = "done"
    /\ \E k, j \in IncidentIds :
           /\ Exhausted(k) /\ ~failure_incidents[k].resolved
           /\ failure_incidents[j].resolved /\ ~Exhausted(j)

\* C20: an incident has a resolution_time if and only if it is resolved, and
\* the resolution_time is not earlier than the incident's timestamp
C20_ResolutionTimeIffResolved ==
    \A k \in IncidentIds :
        LET inc == failure_incidents[k] IN
        /\ inc.resolution_time # None <=> inc.resolved
        /\ inc.resolution_time # None => inc.resolution_time[1] >= inc.timestamp

C20_Witness ==
    \E k, j \in IncidentIds :
        /\ failure_incidents[k].resolved
        /\ failure_incidents[k].resolution_time # None
        /\ failure_incidents[k].resolution_time[1] > failure_incidents[k].timestamp
        /\ ~failure_incidents[j].resolved
        /\ failure_incidents[j].resolution_time = None

\* C21: an incident has an intervention_type if and only if its
\* manual_intervention flag is true, after classification and after the
\* cascade, for every category and every outcome of the retry draws
C21_KindIffManual ==
    \A k \in IncidentIds :
        failure_incidents[k].intervention_type # None
            <=> failure_incidents[k].manual_intervention

\* an exhausted network_timeout incident that got the default kind, next to
\* an incident without flag and kind
C21_Witness ==
    \E k, j \in IncidentIds :
        /\ failure_incidents[k].failure_type = "network_timeout"
        /\ Exhausted(k)
        /\ failure_incidents[k].manual_intervention
        /\ failure_incidents[k].intervention_type = Some("customer_support")
        /\ ~failure_incidents[j].manual_intervention
        /\ failure_incidents[j].intervention_type = None

\* C22: at classification manual_intervention is true exactly for
\* captcha_challenge, site_maintenance and authentication_failed, with kind
\* manual_login, customer_support and credential_update; for every other
\* category the flag is false and no kind is set
C22_ClassificationTimeIntervention ==
    returned # None =>
        LET inc == returned[1] IN
        /\ inc.manual_intervention <=>
               inc.failure_type \in { "captcha_challenge", "site_maintenance",
                                      "authentication_failed" }
        /\ inc.failure_type = "captcha_challenge" =>
               inc.intervention_type = Some("manual_login")
        /\ inc.failure_type = "site_maintenance" =>
               inc.intervention_type = Some("customer_support")
        /\ inc.failure_type = "authentication_failed" =>
               inc.intervention_type = Some("credential_update")
        /\ ~inc.manual_intervention => inc.intervention_type = None
        /\ ~inc.resolved /\ inc.resolution_time = None /\ inc.retry_count = 0

C22_Witness ==
    /\ returned # None
    /\ returned[1].failure_type = "authentication_failed"
    /\ returned[1].manual_intervention
    /\ returned[1].intervention_type = Some("credential_update")

\* the sum of the first k weights of a table
RECURSIVE CumulativeWeight(_, _)
CumulativeWeight(table, k) ==
    IF k = 0 THEN 0 ELSE CumulativeWeight(table, k - 1) + table[k][2]

\* the first entry whose cumulative weight meets or exceeds the draw, or the
\* default
FirstQualifying(table, rand) ==
    LET qualifying == { k \in 1..Len(table) : rand <= CumulativeWeight(table, k) } IN
    IF qualifying = {} THEN "network_timeout"
    ELSE table[CHOOSE k \in qualifying : \A j \in qualifying : k <= j][1]

TableCategories(provider) ==
    { FailureTable(provider)[k][1] : k \in 1..Len(FailureTable(provider)) }

\* C23: for every provider table and every draw the classifier selects the
\* first entry whose cumulative weight meets or exceeds the draw; a draw no
\* entry qualifies for gives network_timeout; the selected category is one
\* of the provider's table or network_timeout
C23_FirstQualifyingEntry ==
    /\ \A provider \in OpenProviders, rand \in 0..99 :
           SelectFailureType(provider, rand) = FirstQualifying(FailureTable(provider), rand)
    /\ \A provider \in OpenProviders :
           SelectFrom(FailureTable(provider), 1, 0,
                      CumulativeWeight(FailureTable(provider), Len(FailureTable(provider))) + 1)
               = "network_timeout"
    /\ returned # None =>
           returned[1].failure_type \in TableCategories(returned[1].provider)
                                            \cup { "network_timeout" }

\* a draw that passed five entries of the skiclubpro table and took the sixth
C23_Witness ==
    /\ returned # None
    /\ returned[1].provider = "skiclubpro"
    /\ returned[1].failure_type = "captcha_challenge"

\* the fields of an incident that no cascade writes
SameImmutableFields(a, b) ==
    /\ a.incident_id = b.incident_id
    /\ a.signup_id = b.signup_id
    /\ a.provider = b.provider
    /\ a.failure_type = b.failure_type
    /\ a.timestamp = b.timestamp
    /\ a.error_message = b.error_message

IsPrefix(xs, ys) == Len(xs) <= Len(ys) /\ SubSeq(ys, 1, Len(xs)) = xs

\* C24: a step of a cascade changes only resolved, resolution_time,
\* retry_count, manual_intervention and intervention_type of its own
\* incident and appends only its own retry attempts (its caller then appends
\* the original); attempts already in the ledger, other incidents and the
\* other fields of its own incident stay as they are, and no step removes
\* an attempt or an incident
C24_CascadeFrame ==
    [][ /\ IsPrefix(signup_attempts, signup_attempts')
        /\ Len(failure_incidents) <= Len(failure_incidents')
        /\ \A k \in IncidentIds :
               SameImmutableFields(failure_incidents[k], failure_incidents'[k])
        /\ pc = "retry" =>
               /\ Len(failure_incidents') = Len(failure_incidents)
               /\ \A k \in IncidentIds \ { incident } :
                      failure_incidents'[k] = failure_incidents[k]
               /\ \A n \in (Len(signup_attempts) + 1)..Len(signup_attempts') :
                      \/ /\ signup_attempts'[n].retry_of = Some(signup[1].signup_id)
                         /\ signup_attempts'[n].signup_id =
                                RetryId(signup[1].signup_id, retry_count + 1)
                      \/ /\ caller = "simulate"
                         /\ pc' = "simulate"
                         /\ n = Len(signup_attempts')
                         /\ signup_attempts'[n] = signup[1] ]_vars

\* the second cascade of a run has resolved its incident in its second
\* round; the first incident, exhausted before, and the earlier attempts are
\* in the ledger
C24_Witness ==
    /\ pc = "simulate"
    /\ Len(failure_incidents) = 2
    /\ Exhausted(1)
    /\ failure_incidents[2].resolved
    /\ failure_incidents[2].retry_count = 2
    /\ Len(signup_attempts) = 7

\* the original attempts that exist: those in the ledger and, while a
\* cascade runs, the original it was called with
OriginalsKnown ==
    { signup_attempts[n] : n \in { m \in AttemptIds : signup_attempts[m].retry_of = None } }
        \cup (IF pc = "retry" THEN { signup[1] } ELSE {})

\* C25: an attempt refers to an incident only if it is an original attempt
\* with success false; a retry attempt has retry_of equal to its original's
\* id, no incident reference, and the user, provider and program of the
\* original
C25_BackReferences ==
    LET originals == OriginalsKnown IN
    \A n \in AttemptIds :
        LET a == signup_attempts[n] IN
        /\ a.failure_incident # None => a.retry_of = None /\ ~a.success
        /\ a.retry_of # None =>
               /\ a.failure_incident = None
               /\ \E o \in originals :
                      /\ o.signup_id = a.retry_of[1]
                      /\ o.user_id = a.user_id
                      /\ o.provider = a.provider
                      /\ o.program_id = a.program_id

\* a failed original with its incident reference in the ledger, after
\* retries of it
C25_Witness ==
    \E n, m \in AttemptIds :
        /\ n < m
        /\ signup_attempts[m].failure_incident # None
        /\ signup_attempts[n].retry_of = Some(signup_attempts[m].signup_id)
        /\ signup_attempts[n].success

\* C26: no two incidents of a run have the same incident_id, whatever the
\* clock second and the random numbers of the id generation
C26_IncidentIdsUnique ==
    \A k, j \in IncidentIds :
        k # j => failure_incidents[k].incident_id # failure_incidents[j].incident_id

\* C27: no two attempts of a run (originals and retries together) have the
\* same signup_id, and the id of the k-th retry of an original is the
\* original's id with the round number k appended
C27_AttemptIdsUnique ==
    /\ \A n, m \in AttemptIds :
           n # m => signup_attempts[n].signup_id # signup_attempts[m].signup_id
    /\ \A o \in OriginalsKnown :
           LET r == RetriesOf(o.signup_id) IN
           \A k \in 1..Len(r) : r[k].signup_id = o.signup_id \o << "_retry_", k >>

\* two originals and the three retries of one of them
C27_Witness ==
    /\ Len(signup_attempts) >= 5
    /\ \E n \in AttemptIds :
           /\ signup_attempts[n].retry_of = None
           /\ Len(RetriesOf(signup_attempts[n].signup_id)) = max_retries
    /\ Cardinality({ n \in AttemptIds : signup_attempts[n].retry_of = None }) = 2

\* C28: after a run is finalized every original attempt with success false
\* refers to exactly one incident of the incident list, with its signup_id
\* and provider; every incident belongs to exactly one such attempt;
\* successful originals and retries own no incident
C28_IncidentsMatchFailedOriginals ==
    Finalized =>
        LET failedOriginals == { n \in AttemptIds :
                                    /\ ~signup_attempts[n].success
                                    /\ signup_attempts[n].retry_of = None }
        IN  /\ \A n \in failedOriginals :
                   LET a == signup_attempts[n] IN
                   /\ a.failure_incident # None
                   /\ a.failure_incident[1] \in IncidentIds
                   /\ failure_incidents[a.failure_incident[1]].signup_id = a.signup_id
                   /\ failure_incidents[a.failure_incident[1]].provider = a.provider
                   /\ failure_incidents[a.failure_incident[1]].timestamp = a.timestamp
            /\ \A k \in IncidentIds :
                   Cardinality({ n \in failedOriginals :
                                    signup_attempts[n].failure_incident = Some(k) }) = 1
            /\ Cardinality(failedOriginals) = Len(failure_incidents)
            /\ \A n \in AttemptIds \ failedOriginals :
                   signup_attempts[n].failure_incident = None

\* a finalized run with two incidents, a successful retry and failed retries
C28_Witness ==
    /\ Finalized
    /\ Len(failure_incidents) = 2
    /\ \E n, m \in AttemptIds :
           /\ signup_attempts[n].retry_of # None /\ signup_attempts[n].success
           /\ signup_attempts[m].retry_of # None /\ ~signup_attempts[m].success

\* C29: after a run is finalized an incident is resolved if and only if
\* exactly one successful retry of its original exists; that retry is the
\* last retry of the original and has the incident's resolution_time; an
\* unresolved incident of a retried category has exactly 3 retries, all
\* failed
C29_ResolvedIffOneSuccessfulRetry ==
    Finalized =>
        \A k \in IncidentIds :
            LET inc == failure_incidents[k]
                r == RetriesOf(inc.signup_id)
                successful == { j \in 1..Len(r) : r[j].success }
            IN  /\ inc.resolved <=> Cardinality(successful) = 1
                /\ inc.resolved =>
                       /\ successful = { Len(r) }
                       /\ inc.resolution_time = Some(r[Len(r)].timestamp)
                       /\ inc.retry_count = Len(r)
                /\ (~inc.resolved /\ inc.failure_type \notin NoRetryTypes) =>
                       /\ Len(r) = max_retries
                       /\ successful = {}
                /\ inc.failure_type \in NoRetryTypes => r = << >>

\* a finalized run with an incident resolved in its second round and an
\* incident of a retried category left unresolved
C29_Witness ==
    /\ Finalized
    /\ \E k, j \in IncidentIds :
           /\ failure_incidents[k].resolved
           /\ Len(RetriesOf(failure_incidents[k].signup_id)) = 2
           /\ ~failure_incidents[j].resolved
           /\ failure_incidents[j].failure_type \notin NoRetryTypes

\* C30: every retry attempt in the attempt list refers through retry_of to
\* an original attempt that stands earlier in the attempt list
C30_OriginalBeforeRetries ==
    \A n \in AttemptIds :
        signup_attempts[n].retry_of # None =>
            \E m \in 1..(n - 1) :
                /\ signup_attempts[m].retry_of = None
                /\ signup_attempts[m].signup_id = signup_attempts[n].retry_of[1]

====
